---------------------------- MODULE Spec2Model ----------------------------
(***************************************************************************)
(* Legal Document Indexer: the job orchestrator, the bulk-index task, the  *)
(* flagging pipeline and the flag store, as implemented in src/app.        *)
(*                                                                         *)
(* Conventions of the model                                                *)
(*  - A Mongo collection is a sequence of documents in insertion order.    *)
(*    insert_one appends, update_one changes the first document matching   *)
(*    the filter ($set merges fields), delete_many filters.                *)
(*  - Python's None is None == <<>> and a present value v is Some(v).      *)
(*  - A collaborator call (store write, fetch, embedding, classifier,      *)
(*    analysis) either returns, with its effect applied, or raises, with   *)
(*    no effect.  The exception's message str(e) is a non-empty string.    *)
(*  - Timestamps (created_at, updated_at, flagged_at, indexed_at) are left *)
(*    out; reviewed_at is kept as a presence flag.                         *)
(*  - Scores and thresholds are in hundredths (0.3 is 30).                 *)
(*  - job_id is a uuid4: the model numbers the jobs 1, 2, ... in the order *)
(*    of submission, and never reuses a number.                            *)
(***************************************************************************)
EXTENDS Integers, Sequences, FiniteSets, Bags, TLC

(* ------------------------------ bounds -------------------------------- *)
\* jobs submitted in one behaviour of Spec and of SpecFlags
MaxJobs == 2
\* length of a URL list, and candidates of one discovery, in Spec and SpecFlags
MaxItems == 1
\* jobs submitted in one behaviour of SpecBulk and of SpecPipeline
MaxSoloJobs == 1
\* length of the URL list of a bulk-index request in SpecBulk
MaxUrls == 2
\* candidates of one discovery in SpecPipeline
MaxCandidates == 2
\* chunks the splitter yields for one fetched text
MaxChunks == 2

(* --------------------------- input domains ---------------------------- *)
Urls == {"u1", "u2"}
Laws == {"lawA", "lawB"}
\* what_changed of a flag request: absent, the empty string, a text
WhatChanged == {<<>>, <<"">>, <<"amended">>}
\* similarity_threshold of a flag request (FlagRequest's default is 0.3)
Thresholds == {30}
\* 1 - distance of the best chunk of a document, as the vector store may return it
Similarities == {20, 60}
\* score of the best chunk of a document in the keyword search (0: no chunk scored)
KeywordScores == {0, 100}

\* the requests POST /flag accepts: any law, what_changed and threshold
FlagRequests(laws, whatChanged, thresholds) ==
    {[changed_law |-> l, what_changed |-> wc, similarity_threshold |-> th] :
        l \in laws, wc \in whatChanged, th \in thresholds}
\* requests with the default threshold
DefaultRequests == FlagRequests(Laws, WhatChanged, Thresholds)
\* a float of every kind as similarity_threshold: negative, zero, inside (0,1], above 1
AnyThresholds == {-100, 0, 30, 100, 150}
\* requests without what_changed, for one law, with any threshold
ThresholdRequests == FlagRequests({"lawA"}, {<<>>}, AnyThresholds)
\* 1 - distance for a cosine distance in [0,2]
CosineSimilarities == {-100, 0, 50, 100}
\* the scores _keyword_search gives a chunk (0.4 boosted is 0.48), and 0 for no match
ProximityScores == {0, 48, 100}

None == <<>>
Some(v) == <<v>>

SeqsUpTo(S, n) == UNION {[1..m -> S] : m \in 0..n}

(* ------------------------------ state --------------------------------- *)
VARIABLES
    jobs,        \* mongodb.db.jobs
    documents,   \* mongodb.db.documents
    flags,       \* mongodb.db.flags
    chunkStore,  \* the Chroma collection "legal_documents", a bag of entries
    tasks,       \* tasks[j]: the background task of job j (its locals and position)
    handles,     \* handles[j]: the response the submit endpoint returned for job j
    search,      \* the locals and position of the retrieval call under study: a
                 \* call of _keyword_search, or the retrieval of one document's chunks
    responses    \* the responses of DELETE /reset and GET /flagged so far, in order

vars == <<jobs, documents, flags, chunkStore, tasks, handles, search, responses>>

JobIds == 1..Len(tasks)

\* no retrieval call is under study
NoSearch == [pc |-> "none"]

(* ----------------------- Mongo collection helpers --------------------- *)
Matching(coll, key, val) == {i \in 1..Len(coll) : coll[i][key] = val}

FirstMatch(coll, key, val) ==
    CHOOSE i \in Matching(coll, key, val) : \A k \in Matching(coll, key, val) : i <= k

\* {"$set": upd} applied to one document
SetFields(old, upd) ==
    [k \in (DOMAIN old) \cup (DOMAIN upd) |-> IF k \in DOMAIN upd THEN upd[k] ELSE old[k]]

\* collection.update_one({key: val}, {"$set": upd}, upsert=upsert)
UpdateOne(coll, key, val, upd, upsert) ==
    IF Matching(coll, key, val) = {}
    THEN IF upsert THEN Append(coll, SetFields((key :> val), upd)) ELSE coll
    ELSE [coll EXCEPT ![FirstMatch(coll, key, val)] = SetFields(@, upd)]

(* ------------------------------ jobs ---------------------------------- *)
\* MongoDB.create_job
create_job(coll, job_id, job_type, params) ==
    Append(coll, [job_id |-> job_id, type |-> job_type, status |-> "pending",
                  params |-> params, result |-> None, error |-> None])

\* a job write that never stores the error message
update_job_drops_error(coll, job_id, status, result, error) ==
    UpdateOne(coll, "job_id", job_id,
              IF result # None THEN [status |-> status, result |-> result]
              ELSE [status |-> status],
              FALSE)

\* a job write with an empty filter: it changes the first job of the collection
update_job_any(coll, job_id, status, result, error) ==
    IF coll = <<>> THEN coll
    ELSE [coll EXCEPT ![1] = SetFields(@,
              IF result # None /\ error # None
              THEN [status |-> status, result |-> result, error |-> error]
              ELSE IF result # None THEN [status |-> status, result |-> result]
              ELSE IF error # None THEN [status |-> status, error |-> error]
              ELSE [status |-> status])]

\* MongoDB.update_job
update_job(coll, job_id, status, result, error) ==
    UpdateOne(coll, "job_id", job_id,
              IF result # None /\ error # None
              THEN [status |-> status, result |-> result, error |-> error]
              ELSE IF result # None THEN [status |-> status, result |-> result]
              ELSE IF error # None THEN [status |-> status, error |-> error]
              ELSE [status |-> status],
              FALSE)

\* MongoDB.get_job: None when no job has the id
get_job(coll, job_id) ==
    IF Matching(coll, "job_id", job_id) = {} THEN None
    ELSE Some(coll[FirstMatch(coll, "job_id", job_id)])

(* --------------------------- the chunker ------------------------------ *)
\* DocumentProcessor._generate_doc_id: md5 of the url (injective on its input)
generate_doc_id(url) == <<url>>

\* DocumentProcessor._generate_chunk_id: md5 of f"{url}_{chunk_index}"
generate_chunk_id(url, chunk_index) == <<url, "_", chunk_index>>

\* DocumentProcessor.process on a text the splitter cuts into n pieces
process(url, n) ==
    [i \in 1..n |->
        [chunk_id |-> generate_chunk_id(url, i - 1),
         document_id |-> generate_doc_id(url),
         url |-> url,
         chunk_index |-> i - 1,
         total_chunks |-> n]]

DocIds == {generate_doc_id(u) : u \in Urls}

(* ------------------------- the vector store --------------------------- *)
\* The collection is a bag of entries: an entry is what the store holds under one
\* insertion of a chunk (its id, and its metadata).
\* a write that adds the chunks whatever the collection holds (collection.add
\* without a check of the ids)
index_chunks_add(store, chunks) ==
    store (+) SetToBag({chunks[i] : i \in 1..Len(chunks)})

\* VectorDB.index_chunks: collection.upsert by chunk id (nothing for no chunks)
index_chunks(store, chunks) ==
    LET ids == {chunks[i].chunk_id : i \in 1..Len(chunks)}
        others == {e \in BagToSet(store) : e.chunk_id \notin ids}
    IN [e \in others |-> store[e]] (+) SetToBag({chunks[i] : i \in 1..Len(chunks)})

(* --------------------------- task records ----------------------------- *)
\* the locals of a background task, and a record of what happened to it: outcomes
\* (per URL: "ok" or the message recorded), pieces (per URL: the number of chunks
\* of the fetched text, None when the fetch raised), replies (per candidate: the
\* classifier reply), handled (per validated candidate: analysis reply and write),
\* semantic_results and keyword_results (the score of each document the semantic
\* and the keyword search returned), encounter (the documents in the order in
\* which the two searches first returned them), calls (the calls the flag task
\* has awaited, each with its begin and its end, in the order of the awaits)
NoTaskFields ==
    [urls |-> <<>>, law_name |-> "", what_changed |-> None, threshold |-> 0,
     i |-> 1, indexed_count |-> 0, failed_urls |-> <<>>, chunks |-> <<>>,
     semantic_results |-> <<>>, keyword_results |-> <<>>, encounter |-> <<>>,
     matching_docs |-> <<>>, validated_docs |-> <<>>, flagged_count |-> 0,
     flagged_docs_summary |-> <<>>, err |-> "",
     outcomes |-> <<>>, pieces |-> <<>>, replies |-> <<>>, handled |-> <<>>,
     calls |-> <<>>]

NewBulkTask(urls) ==
    SetFields(NoTaskFields, [kind |-> "bulk_index", pc |-> "start", urls |-> urls])

(* ---------------------------- bulk index ------------------------------ *)
\* POST /index/bulk
SubmitBulk(maxJobs, maxUrls) ==
    /\ Len(tasks) < maxJobs
    /\ \E urls \in SeqsUpTo(Urls, maxUrls) :
         LET job_id == Len(tasks) + 1 IN
         /\ jobs' = create_job(jobs, job_id, "bulk_index", [urls |-> urls])
         /\ tasks' = Append(tasks, NewBulkTask(urls))
         /\ handles' = Append(handles, [job_id |-> job_id, status |-> "pending"])
    /\ UNCHANGED <<documents, flags, chunkStore, search, responses>>

\* the position after the URL at index i has been dealt with
AfterUrl(t) == IF t.i + 1 > Len(t.urls) THEN "finish" ELSE "scrape"

\* a per-URL failure that ends the loop instead of going on to the next URL
url_failed_break(t, msg) ==
    [t EXCEPT !.failed_urls = Append(@, [url |-> t.urls[t.i], error |-> msg]),
              !.outcomes = Append(@, msg),
              !.chunks = <<>>,
              !.i = Len(t.urls) + 1,
              !.pc = "finish"]

\* except Exception as e: failed_urls.append({"url": url, "error": str(e)})
url_failed(t, msg) ==
    [t EXCEPT !.failed_urls = Append(@, [url |-> t.urls[t.i], error |-> msg]),
              !.outcomes = Append(@, msg),
              !.chunks = <<>>,
              !.i = @ + 1,
              !.pc = AfterUrl(t)]

\* await mongodb.update_job(job_id, "processing") of the bulk task
BulkStart(j) ==
    /\ tasks[j].kind = "bulk_index" /\ tasks[j].pc = "start"
    /\ \/ /\ jobs' = update_job(jobs, j, "processing", None, None)
          /\ tasks' = [tasks EXCEPT ![j].pc =
                          IF Len(tasks[j].urls) = 0 THEN "finish" ELSE "scrape"]
       \/ /\ tasks' = [tasks EXCEPT ![j].pc = "handler", ![j].err = "store error"]
          /\ UNCHANGED jobs
    /\ UNCHANGED <<documents, flags, chunkStore, handles, search, responses>>

\* scraper.scrape, processor.process, vector_db.index_chunks for urls[i], and the
\* evaluation of chunks[0] that precedes the document write
BulkScrapeIndex(j) ==
    /\ tasks[j].kind = "bulk_index" /\ tasks[j].pc = "scrape"
    /\ LET t == tasks[j]
           url == t.urls[t.i] IN
       \/ /\ tasks' = [tasks EXCEPT ![j] = [url_failed(t, "scrape error")
                                                 EXCEPT !.pieces = Append(@, None)]]
          /\ UNCHANGED chunkStore
       \/ \E n \in 0..MaxChunks :
            LET chunks == process(url, n) IN
            \/ /\ n > 0
               /\ tasks' = [tasks EXCEPT ![j] = [url_failed(t, "index error")
                                                      EXCEPT !.pieces = Append(@, Some(n))]]
               /\ UNCHANGED chunkStore
            \/ /\ n > 0
               /\ chunkStore' = index_chunks(chunkStore, chunks)
               /\ tasks' = [tasks EXCEPT ![j].chunks = chunks, ![j].pc = "insert",
                                         ![j].pieces = Append(@, Some(n))]
            \/ /\ n = 0
               /\ chunkStore' = index_chunks(chunkStore, chunks)
               /\ tasks' = [tasks EXCEPT ![j] = [url_failed(t, "list index out of range")
                                                      EXCEPT !.pieces = Append(@, Some(n))]]
    /\ UNCHANGED <<jobs, documents, flags, handles, search, responses>>

\* await mongodb.insert_document({...}); indexed_count += 1
BulkInsertDocument(j) ==
    /\ tasks[j].kind = "bulk_index" /\ tasks[j].pc = "insert"
    /\ LET t == tasks[j] IN
       \/ /\ documents' = Append(documents,
                 [document_id |-> t.chunks[1].document_id, url |-> t.urls[t.i],
                  chunk_count |-> Len(t.chunks)])
          /\ tasks' = [tasks EXCEPT ![j].indexed_count = @ + 1,
                                    ![j].outcomes = Append(@, "ok"),
                                    ![j].chunks = <<>>,
                                    ![j].i = @ + 1,
                                    ![j].pc = AfterUrl(t)]
       \/ /\ tasks' = [tasks EXCEPT ![j] = url_failed(t, "insert error")]
          /\ UNCHANGED documents
    /\ UNCHANGED <<jobs, flags, chunkStore, handles, search, responses>>

\* result = {...} of the bulk task
BulkResult(t) ==
    [indexed |-> t.indexed_count, failed |-> Len(t.failed_urls),
     failed_urls |-> t.failed_urls]

\* await mongodb.update_job(job_id, "completed", result=result) of the bulk task
BulkFinish(j) ==
    /\ tasks[j].kind = "bulk_index" /\ tasks[j].pc = "finish"
    /\ \/ /\ jobs' = update_job(jobs, j, "completed", Some(BulkResult(tasks[j])), None)
          /\ tasks' = [tasks EXCEPT ![j].pc = "done"]
       \/ /\ tasks' = [tasks EXCEPT ![j].pc = "handler", ![j].err = "store error"]
          /\ UNCHANGED jobs
    /\ UNCHANGED <<documents, flags, chunkStore, handles, search, responses>>

\* except Exception as e: await mongodb.update_job(job_id, "failed", error=str(e));
\* when this write raises the exception leaves the task
BulkHandler(j) ==
    /\ tasks[j].kind = "bulk_index" /\ tasks[j].pc = "handler"
    /\ \/ /\ jobs' = update_job(jobs, j, "failed", None, Some(tasks[j].err))
          /\ tasks' = [tasks EXCEPT ![j].pc = "done"]
       \/ /\ tasks' = [tasks EXCEPT ![j].pc = "raised"]
          /\ UNCHANGED jobs
    /\ UNCHANGED <<documents, flags, chunkStore, handles, search, responses>>

(* ------------------------- JSON-like values --------------------------- *)
\* a Python value as the analysis code sees it: t is its type, n its len(), s its
\* text (of a str), f its members (of a dict)
PyVal(t, n, s, f) == [t |-> t, n |-> n, s |-> s, f |-> f]
NoMembers == [k \in {} |-> 0]
PyNone == PyVal("null", 0, "", NoMembers)
PyStr(s) == PyVal("str", 1, s, NoMembers)
PyList(n) == PyVal("list", n, "", NoMembers)
PyDict(f) == PyVal("obj", Cardinality(DOMAIN f), "", f)
PyNum == PyVal("num", 0, "", NoMembers)
\* a list given with its items
PyListOf(items) == PyVal("list", Len(items), "", items)

\* v.get(key, default): only a dict has it
HasGet(v) == v.t = "obj"
Get(v, key, default) == IF key \in DOMAIN v.f THEN v.f[key] ELSE default
\* len(v) raises TypeError on None
HasLen(v) == v.t \in {"obj", "list", "str"}

(* ---------------------------- the analyzer ---------------------------- *)
\* what the chat completion of validate_law_reference may hold; index 0 stands for
\* a call that raises (or a reply without content)
ClassifierReplies ==
    << <<"Y", "E", "S">>, <<" ", "y", "e", "s", ".">>, <<"N", "O">> >>

RECURSIVE Strip(_)
\* str.strip (of blanks)
Strip(s) ==
    IF s = <<>> THEN s
    ELSE IF Head(s) = " " THEN Strip(Tail(s))
    ELSE IF s[Len(s)] = " " THEN Strip(SubSeq(s, 1, Len(s) - 1))
    ELSE s

UpperChar(c) ==
    CASE c = "y" -> "Y" [] c = "e" -> "E" [] c = "s" -> "S"
      [] c = "n" -> "N" [] c = "o" -> "O" [] OTHER -> c

\* str.upper
Upper(s) == [i \in 1..Len(s) |-> UpperChar(s[i])]

\* str.startswith
StartsWith(s, prefix) ==
    /\ Len(s) >= Len(prefix)
    /\ SubSeq(s, 1, Len(prefix)) = prefix

\* a validation that drops the candidate when the classifier call raises
validate_fail_closed(r) ==
    IF r = 0 THEN FALSE
    ELSE StartsWith(Upper(Strip(ClassifierReplies[r])), <<"Y", "E", "S">>)

\* DocumentAnalyzer.validate_law_reference
validate_law_reference(r) ==
    IF r = 0 THEN TRUE
    ELSE StartsWith(Upper(Strip(ClassifierReplies[r])), <<"Y", "E", "S">>)

\* what the chat completion of analyze_document may do: raise, or return a content
\* that is not JSON, or JSON of some shape
Reply(raises, json, value) == [raises |-> raises, json |-> json, value |-> value]

AnalysisObject(sections) ==
    PyDict([k \in {"overall_impact", "sections_needing_update"} |->
               IF k = "overall_impact" THEN PyStr("impact") ELSE sections])

TopObject(analysis) == PyDict([k \in {"analysis"} |-> analysis])

CapabilityError == Reply(TRUE, FALSE, PyNone)
NonJsonText == Reply(FALSE, FALSE, PyNone)
JsonNotObject == Reply(FALSE, TRUE, PyList(0))
AnalysisNotObject == Reply(FALSE, TRUE, TopObject(PyStr("n/a")))
SectionsNotList == Reply(FALSE, TRUE, TopObject(AnalysisObject(PyNone)))

\* the item of sections_needing_update the prompt asks for, and one without its
\* member 'confidence'
SuggestionFields == {"section_text", "issue", "suggested_change", "confidence"}
Suggestion ==
    PyDict([k \in SuggestionFields |-> IF k = "confidence" THEN PyNum ELSE PyStr("text")])
SuggestionWithoutConfidence ==
    PyDict([k \in SuggestionFields \ {"confidence"} |-> PyStr("text")])

WellFormed == Reply(FALSE, TRUE, TopObject(AnalysisObject(PyListOf(<<Suggestion>>))))
ItemIncomplete ==
    Reply(FALSE, TRUE, TopObject(AnalysisObject(PyListOf(<<SuggestionWithoutConfidence>>))))

AnalysisReplies ==
    {CapabilityError, NonJsonText, JsonNotObject, AnalysisNotObject, SectionsNotList,
     WellFormed}

\* the replies with a list of suggestions, of either kind of item
SuggestionReplies == {WellFormed, ItemIncomplete}

\* the dictionary analyze_document returns from its except branch
AnalysisFallback ==
    PyDict([k \in {"document_mentions_law", "overall_impact", "sections_needing_update"} |->
               IF k = "document_mentions_law" THEN PyVal("bool", 0, "False", NoMembers)
               ELSE IF k = "overall_impact" THEN PyStr("Error during analysis")
               ELSE PyList(0)])

\* DocumentAnalyzer.analyze_document
analyze_document(reply) ==
    IF reply.raises \/ ~reply.json \/ ~HasGet(reply.value)
    THEN AnalysisFallback
    ELSE Get(reply.value, "analysis", PyDict(NoMembers))

(* --------------------------- the retriever ---------------------------- *)
StoredDocIds(store) == {e.document_id : e \in BagToSet(store)}
UrlOf(store, d) == (CHOOSE e \in BagToSet(store) : e.document_id = d).url

Orderings(S) ==
    {o \in [1..Cardinality(S) -> S] : \A a, b \in 1..Cardinality(S) : a # b => o[a] # o[b]}

\* list.sort(key=confidence, reverse=True) is stable: x goes behind the entries
\* that are at least as confident
InsertByConfidence(sorted, x) ==
    LET k == Cardinality({i \in 1..Len(sorted) : sorted[i].confidence >= x.confidence}) IN
    SubSeq(sorted, 1, k) \o <<x>> \o SubSeq(sorted, k + 1, Len(sorted))

RECURSIVE SortByConfidence(_)
SortByConfidence(seq) ==
    IF seq = <<>> THEN <<>>
    ELSE InsertByConfidence(SortByConfidence(SubSeq(seq, 1, Len(seq) - 1)), seq[Len(seq)])

\* a merge that takes the semantic score of every semantic match as its confidence
merge_results_semantic_first(store, semantic, keyword, order) ==
    SortByConfidence(
        [i \in 1..Len(order) |->
            LET d == order[i] IN
            [document_id |-> d,
             url |-> UrlOf(store, d),
             confidence |-> IF d \in DOMAIN semantic THEN semantic[d] ELSE keyword[d],
             match_type |-> IF d \in DOMAIN semantic THEN "semantic" ELSE "keyword",
             semantic_score |-> IF d \in DOMAIN semantic THEN semantic[d] ELSE 0,
             keyword_score |-> IF d \in DOMAIN keyword THEN keyword[d] ELSE 0]])

\* VectorDB._merge_results; order is the iteration order of the set all_doc_ids
merge_results(store, semantic, keyword, order) ==
    SortByConfidence(
        [i \in 1..Len(order) |->
            LET d == order[i]
                sem_score == IF d \in DOMAIN semantic THEN semantic[d] ELSE 0
                kw_score == IF d \in DOMAIN keyword THEN keyword[d] ELSE 0
            IN [document_id |-> d,
                url |-> UrlOf(store, d),
                confidence |-> IF sem_score > 0 /\ kw_score > 0
                               THEN (IF sem_score >= kw_score THEN sem_score ELSE kw_score)
                               ELSE IF sem_score > 0 THEN sem_score ELSE kw_score,
                match_type |-> IF sem_score > 0 /\ kw_score > 0 THEN "semantic+keyword"
                               ELSE IF sem_score > 0 THEN "semantic" ELSE "keyword",
                semantic_score |-> sem_score,
                keyword_score |-> kw_score]])

(* --------------------------- the flag store --------------------------- *)
\* a flag write that inserts a new record whatever the store holds
create_flag_insert(coll, flag) == Append(coll, flag)

\* MongoDB.create_flag
create_flag(coll, flag) == UpdateOne(coll, "document_id", flag.document_id, flag, TRUE)

\* a status update that upserts: it creates a record when the document has no Flag
update_flag_status_upsert(coll, document_id, status) ==
    UpdateOne(coll, "document_id", document_id,
              [status |-> status, reviewed_at |-> TRUE], TRUE)

\* MongoDB.update_flag_status
update_flag_status(coll, document_id, status) ==
    UpdateOne(coll, "document_id", document_id,
              [status |-> status, reviewed_at |-> TRUE], FALSE)

\* MongoDB.delete_flags
delete_flags(coll, document_ids) ==
    SelectSeq(coll, LAMBDA r : r.document_id \notin document_ids)

FlagStatuses == {"flagged", "reviewed", "updated"}

\* POST /flag/status
UpdateFlagStatus ==
    /\ \E d \in DocIds, s \in FlagStatuses :
         flags' = update_flag_status(flags, d, s)
    /\ UNCHANGED <<jobs, documents, chunkStore, tasks, handles, search, responses>>

\* POST /unflag
Unflag ==
    /\ \E ids \in (SUBSET DocIds) \ {{}} :
         flags' = delete_flags(flags, ids)
    /\ UNCHANGED <<jobs, documents, chunkStore, tasks, handles, search, responses>>

(* ------------------------- the flagging pipeline ---------------------- *)
NewFlagTask(law_name, what_changed, threshold) ==
    SetFields(NoTaskFields,
              [kind |-> "flag_documents", pc |-> "start", law_name |-> law_name,
               what_changed |-> what_changed, threshold |-> threshold])

\* an awaited call: the task goes on when the call has returned or raised
Call(name, document_id) ==
    <<[call |-> name, doc |-> document_id, at |-> "begin"],
      [call |-> name, doc |-> document_id, at |-> "end"]>>

\* a candidate whose analysis and flag write are started together
candidate_calls_overlapped(document_id, analysed, reached) ==
    IF analysed /\ reached
    THEN <<Call("analyze", document_id)[1], Call("create_flag", document_id)[1],
           Call("analyze", document_id)[2], Call("create_flag", document_id)[2]>>
    ELSE IF analysed THEN Call("analyze", document_id)
    ELSE IF reached THEN Call("create_flag", document_id)
    ELSE <<>>

\* the calls of one round of the flag loop: await analyzer.analyze_document(...)
\* when what_changed is given, then await mongodb.create_flag(flag_data) when
\* flag_data was built
candidate_calls(document_id, analysed, reached) ==
    (IF analysed THEN Call("analyze", document_id) ELSE <<>>)
        \o (IF reached THEN Call("create_flag", document_id) ELSE <<>>)

\* POST /flag
SubmitFlag(maxJobs, requests) ==
    /\ Len(tasks) < maxJobs
    /\ \E request \in requests :
         LET job_id == Len(tasks) + 1 IN
         /\ jobs' = create_job(jobs, job_id, "flag_documents",
                               [law |-> request.changed_law,
                                what_changed |-> request.what_changed,
                                threshold |-> request.similarity_threshold])
         /\ tasks' = Append(tasks, NewFlagTask(request.changed_law, request.what_changed,
                                               request.similarity_threshold))
         /\ handles' = Append(handles, [job_id |-> job_id, status |-> "processing"])
    /\ UNCHANGED <<documents, flags, chunkStore, search, responses>>

\* await mongodb.update_job(job_id, "processing") of the flag task
FlagStart(j) ==
    /\ tasks[j].kind = "flag_documents" /\ tasks[j].pc = "start"
    /\ \/ /\ jobs' = update_job(jobs, j, "processing", None, None)
          /\ tasks' = [tasks EXCEPT ![j].pc = "discover"]
       \/ /\ tasks' = [tasks EXCEPT ![j].pc = "handler", ![j].err = "store error"]
          /\ UNCHANGED jobs
    /\ UNCHANGED <<documents, flags, chunkStore, handles, search, responses>>

\* the keys of the dict _semantic_search returns, in insertion order: the query
\* returns the chunks by ascending distance, so a document with a better best
\* chunk is inserted first
SemanticKeyOrders(semantic) ==
    {o \in Orderings(DOMAIN semantic) :
        \A a, b \in 1..Len(o) : a < b => semantic[o[a]] >= semantic[o[b]]}

\* the keys of the dict _keyword_search returns, in insertion order: the order in
\* which collection.get lists the chunks
KeywordKeyOrders(keyword) == Orderings(DOMAIN keyword)

\* the documents in the order in which the searches first returned them: the
\* semantic search runs first
EncounterOrder(semOrder, kwOrder) ==
    semOrder \o SelectSeq(kwOrder, LAMBDA d : \A a \in 1..Len(semOrder) : semOrder[a] # d)

\* STEP 1: vector_db.find_all_matching_documents(law_name, threshold); the
\* similarities and keyword scores depend on the embeddings and the texts, and
\* the iteration order of the set all_doc_ids on the hashes of the ids
FlagDiscover(j, maxCandidates, similarities, keywordScores) ==
    /\ tasks[j].kind = "flag_documents" /\ tasks[j].pc = "discover"
    /\ LET t == tasks[j]
           stored == StoredDocIds(chunkStore) IN
       \/ tasks' = [tasks EXCEPT ![j].pc = "handler", ![j].err = "search error",
                                 ![j].calls = @ \o Call("search", None)]
       \/ \E sims \in [stored -> similarities], kws \in [stored -> keywordScores] :
            LET semantic == [d \in {x \in stored : sims[x] >= t.threshold} |-> sims[d]]
                keyword == [d \in {x \in stored : kws[x] > 0} |-> kws[d]]
            IN \E order \in Orderings(DOMAIN semantic \cup DOMAIN keyword),
                  semOrder \in SemanticKeyOrders(semantic),
                  kwOrder \in KeywordKeyOrders(keyword) :
                 LET merged == merge_results(chunkStore, semantic, keyword, order) IN
                 /\ Len(merged) <= maxCandidates
                 /\ tasks' = [tasks EXCEPT ![j].semantic_results = semantic,
                                           ![j].keyword_results = keyword,
                                           ![j].encounter = EncounterOrder(semOrder, kwOrder),
                                           ![j].matching_docs = merged,
                                           ![j].calls = @ \o Call("search", None),
                                           ![j].i = 1,
                                           ![j].pc = IF merged = <<>> THEN "finish"
                                                     ELSE "validate"]
    /\ UNCHANGED <<jobs, documents, flags, chunkStore, handles, search, responses>>

\* STEP 2, one candidate: analyzer.validate_law_reference(full_text, law_name)
FlagValidate(j) ==
    /\ tasks[j].kind = "flag_documents" /\ tasks[j].pc = "validate"
    /\ LET t == tasks[j]
           doc == t.matching_docs[t.i] IN
       \E r \in 0..Len(ClassifierReplies) :
         LET validated == IF validate_law_reference(r)
                          THEN Append(t.validated_docs, doc) ELSE t.validated_docs
             last == t.i = Len(t.matching_docs) IN
         tasks' = [tasks EXCEPT ![j].validated_docs = validated,
                                ![j].replies = Append(@, r),
                                ![j].calls = @ \o Call("validate", doc.document_id),
                                ![j].i = IF last THEN 1 ELSE @ + 1,
                                ![j].pc = IF ~last THEN "validate"
                                          ELSE IF validated = <<>> THEN "finish"
                                          ELSE "flag"]
    /\ UNCHANGED <<jobs, documents, flags, chunkStore, handles, search, responses>>

\* bool(what_changed)
Truthy(opt) == opt # None /\ opt[1] # ""

NoAnalysis == Reply(FALSE, FALSE, PyList(0))

\* flag_data when the candidate reaches create_flag, None when building it raises
flag_data(t, doc, reply) ==
    LET base == [document_id |-> doc.document_id, url |-> doc.url,
                 flagged_for_law |-> t.law_name, what_changed |-> t.what_changed,
                 confidence |-> doc.confidence, status |-> "flagged",
                 change_suggestions |-> PyList(0)]
        analysis == analyze_document(reply)
        suggestions == Get(analysis, "sections_needing_update", PyList(0))
    IN IF ~Truthy(t.what_changed) THEN Some(base)
       ELSE IF ~HasGet(analysis) THEN None
       ELSE IF ~HasLen(suggestions) THEN None
       ELSE Some(SetFields(base, [analysis |-> analysis,
                                  change_suggestions |-> suggestions]))

\* the position after the validated candidate at index i has been dealt with
AfterCandidate(t) == IF t.i + 1 > Len(t.validated_docs) THEN "finish" ELSE "flag"

\* a per-candidate exception that is not caught in the loop
candidate_failed_abort(t, reply, persist) ==
    [t EXCEPT !.handled = Append(@, [reply |-> reply, persist |-> persist, flag |-> None]),
              !.err = "candidate error",
              !.pc = "handler"]

\* except Exception as e: logger.error(...) of the flag loop
candidate_failed(t, reply, persist) ==
    [t EXCEPT !.handled = Append(@, [reply |-> reply, persist |-> persist, flag |-> None]),
              !.i = @ + 1,
              !.pc = AfterCandidate(t)]

\* STEP 3 and 4, one validated candidate: analyze_document (when what_changed is
\* given), create_flag, and the entry of flagged_docs_summary; replies is what
\* the chat completion may hold
FlagCandidate(j, replies) ==
    /\ tasks[j].kind = "flag_documents" /\ tasks[j].pc = "flag"
    /\ LET t == tasks[j]
           doc == t.validated_docs[t.i] IN
       \E reply \in (IF Truthy(t.what_changed) THEN replies ELSE {NoAnalysis}) :
         LET fd == flag_data(t, doc, reply)
             calls == t.calls \o candidate_calls(doc.document_id, Truthy(t.what_changed),
                                                 fd # None) IN
         \/ /\ fd = None
            /\ tasks' = [tasks EXCEPT ![j] = [candidate_failed(t, reply, "not reached")
                                                  EXCEPT !.calls = calls]]
            /\ UNCHANGED flags
         \/ /\ fd # None
            /\ tasks' = [tasks EXCEPT ![j] = [candidate_failed(t, reply, "raised")
                                                  EXCEPT !.calls = calls]]
            /\ UNCHANGED flags
         \/ /\ fd # None
            /\ flags' = create_flag(flags, fd[1])
            /\ tasks' = [tasks EXCEPT
                  ![j].flagged_count = @ + 1,
                  ![j].flagged_docs_summary = Append(@,
                      [document_id |-> doc.document_id, url |-> doc.url,
                       suggestions_count |-> fd[1].change_suggestions.n]),
                  ![j].handled = Append(@, [reply |-> reply, persist |-> "ok", flag |-> fd]),
                  ![j].calls = calls,
                  ![j].i = @ + 1,
                  ![j].pc = AfterCandidate(t)]
    /\ UNCHANGED <<jobs, documents, chunkStore, handles, search, responses>>

\* a result that reports every validated candidate as flagged
FlagResult_validated(t) ==
    [total_found |-> Len(t.matching_docs),
     validated |-> Len(t.validated_docs),
     flagged |-> Len(t.validated_docs),
     analyzed |-> IF Truthy(t.what_changed) THEN Len(t.validated_docs) ELSE 0,
     flagged_documents |-> t.flagged_docs_summary]

\* result = {...} of the flag task
FlagResult(t) ==
    [total_found |-> Len(t.matching_docs),
     validated |-> Len(t.validated_docs),
     flagged |-> t.flagged_count,
     analyzed |-> IF Truthy(t.what_changed) THEN t.flagged_count ELSE 0,
     flagged_documents |-> t.flagged_docs_summary]

\* await mongodb.update_job(job_id, "completed", result=result) of the flag task
FlagFinish(j) ==
    /\ tasks[j].kind = "flag_documents" /\ tasks[j].pc = "finish"
    /\ \/ /\ jobs' = update_job(jobs, j, "completed", Some(FlagResult(tasks[j])), None)
          /\ tasks' = [tasks EXCEPT ![j].pc = "done"]
       \/ /\ tasks' = [tasks EXCEPT ![j].pc = "handler", ![j].err = "store error"]
          /\ UNCHANGED jobs
    /\ UNCHANGED <<documents, flags, chunkStore, handles, search, responses>>

\* except Exception as e: await mongodb.update_job(job_id, "failed", error=str(e));
\* when this write raises the exception leaves the task
FlagHandler(j) ==
    /\ tasks[j].kind = "flag_documents" /\ tasks[j].pc = "handler"
    /\ \/ /\ jobs' = update_job(jobs, j, "failed", None, Some(tasks[j].err))
          /\ tasks' = [tasks EXCEPT ![j].pc = "done"]
       \/ /\ tasks' = [tasks EXCEPT ![j].pc = "raised"]
          /\ UNCHANGED jobs
    /\ UNCHANGED <<documents, flags, chunkStore, handles, search, responses>>

(* --------------------------- specifications --------------------------- *)
\* the state after construction: empty stores, no job
Init ==
    /\ jobs = <<>>
    /\ documents = <<>>
    /\ flags = <<>>
    /\ chunkStore = EmptyBag
    /\ tasks = <<>>
    /\ handles = <<>>
    /\ search = NoSearch
    /\ responses = <<>>

\* the state after one bulk-index job over u1, u2 (one chunk each) has completed
IndexedUrls == <<"u1", "u2">>
IndexedTask ==
    [NewBulkTask(IndexedUrls) EXCEPT !.pc = "done", !.i = 3, !.indexed_count = 2,
                                     !.outcomes = <<"ok", "ok">>,
                                     !.pieces = <<Some(1), Some(1)>>]
InitIndexed ==
    /\ jobs = update_job(
                update_job(create_job(<<>>, 1, "bulk_index", [urls |-> IndexedUrls]),
                           1, "processing", None, None),
                1, "completed", Some(BulkResult(IndexedTask)), None)
    /\ documents = [i \in 1..2 |->
                       [document_id |-> generate_doc_id(IndexedUrls[i]),
                        url |-> IndexedUrls[i], chunk_count |-> 1]]
    /\ flags = <<>>
    /\ chunkStore = SetToBag({process(IndexedUrls[i], 1)[1] : i \in 1..2})
    /\ tasks = <<IndexedTask>>
    /\ handles = <<[job_id |-> 1, status |-> "pending"]>>
    /\ search = NoSearch
    /\ responses = <<>>

\* the whole service: two jobs of either kind, short lists
Next ==
    \/ SubmitBulk(MaxJobs, MaxItems)
    \/ SubmitFlag(MaxJobs, DefaultRequests)
    \/ \E j \in JobIds : BulkStart(j)
    \/ \E j \in JobIds : BulkScrapeIndex(j)
    \/ \E j \in JobIds : BulkInsertDocument(j)
    \/ \E j \in JobIds : BulkFinish(j)
    \/ \E j \in JobIds : BulkHandler(j)
    \/ \E j \in JobIds : FlagStart(j)
    \/ \E j \in JobIds : FlagDiscover(j, MaxItems, Similarities, KeywordScores)
    \/ \E j \in JobIds : FlagValidate(j)
    \/ \E j \in JobIds : FlagCandidate(j, AnalysisReplies)
    \/ \E j \in JobIds : FlagFinish(j)
    \/ \E j \in JobIds : FlagHandler(j)
    \/ UpdateFlagStatus
    \/ Unflag

Spec == Init /\ [][Next]_vars

\* one bulk-index job over a longer list
NextBulk ==
    \/ SubmitBulk(MaxSoloJobs, MaxUrls)
    \/ \E j \in JobIds : BulkStart(j)
    \/ \E j \in JobIds : BulkScrapeIndex(j)
    \/ \E j \in JobIds : BulkInsertDocument(j)
    \/ \E j \in JobIds : BulkFinish(j)
    \/ \E j \in JobIds : BulkHandler(j)

SpecBulk == Init /\ [][NextBulk]_vars

\* one flag job over an indexed store, several candidates
NextPipeline ==
    \/ SubmitFlag(1 + MaxSoloJobs, DefaultRequests)
    \/ \E j \in JobIds : FlagStart(j)
    \/ \E j \in JobIds : FlagDiscover(j, MaxCandidates, Similarities, KeywordScores)
    \/ \E j \in JobIds : FlagValidate(j)
    \/ \E j \in JobIds : FlagCandidate(j, AnalysisReplies)
    \/ \E j \in JobIds : FlagFinish(j)
    \/ \E j \in JobIds : FlagHandler(j)

SpecPipeline == InitIndexed /\ [][NextPipeline]_vars

\* the indexed store while two flag jobs, for two laws, have both validated the
\* document of u1 and are about to flag it
FlaggingTask(law, wc, conf, match_type) ==
    LET doc == [document_id |-> generate_doc_id("u1"), url |-> "u1",
                confidence |-> conf, match_type |-> match_type,
                semantic_score |-> IF match_type = "semantic" THEN conf ELSE 0,
                keyword_score |-> IF match_type = "keyword" THEN conf ELSE 0] IN
    [NewFlagTask(law, wc, 30) EXCEPT
        !.pc = "flag",
        !.semantic_results = [d \in {x \in {doc.document_id} : match_type = "semantic"} |-> conf],
        !.keyword_results = [d \in {x \in {doc.document_id} : match_type = "keyword"} |-> conf],
        !.encounter = <<doc.document_id>>,
        !.calls = Call("search", None) \o Call("validate", doc.document_id),
        !.matching_docs = <<doc>>, !.validated_docs = <<doc>>, !.replies = <<1>>]

FlaggingJob(coll, job_id, law, wc) ==
    update_job(create_job(coll, job_id, "flag_documents",
                          [law |-> law, what_changed |-> wc, threshold |-> 30]),
               job_id, "processing", None, None)

InitFlagging ==
    \E wcA, wcB \in WhatChanged :
      /\ jobs = FlaggingJob(FlaggingJob(
                  update_job(
                    update_job(create_job(<<>>, 1, "bulk_index", [urls |-> IndexedUrls]),
                               1, "processing", None, None),
                    1, "completed", Some(BulkResult(IndexedTask)), None),
                  2, "lawA", wcA), 3, "lawB", wcB)
      /\ documents = [i \in 1..2 |->
                         [document_id |-> generate_doc_id(IndexedUrls[i]),
                          url |-> IndexedUrls[i], chunk_count |-> 1]]
      /\ flags = <<>>
      /\ chunkStore = SetToBag({process(IndexedUrls[i], 1)[1] : i \in 1..2})
      /\ tasks = <<IndexedTask, FlaggingTask("lawA", wcA, 60, "semantic"),
                   FlaggingTask("lawB", wcB, 100, "keyword")>>
      /\ handles = <<[job_id |-> 1, status |-> "pending"],
                     [job_id |-> 2, status |-> "processing"],
                     [job_id |-> 3, status |-> "processing"]>>
      /\ search = NoSearch
      /\ responses = <<>>

\* two flag tasks at work on the same document, with the flag endpoints
NextFlags ==
    \/ \E j \in JobIds : FlagCandidate(j, AnalysisReplies)
    \/ \E j \in JobIds : FlagFinish(j)
    \/ \E j \in JobIds : FlagHandler(j)
    \/ UpdateFlagStatus
    \/ Unflag

SpecFlags == InitFlagging /\ [][NextFlags]_vars

\* flag jobs from their submission on, over the indexed store: the specification
\* under which InitFlagging is reached
NextFlagJobs ==
    \/ SubmitFlag(1 + MaxJobs, DefaultRequests)
    \/ \E j \in JobIds : FlagStart(j)
    \/ \E j \in JobIds : FlagDiscover(j, MaxItems, Similarities, KeywordScores)
    \/ \E j \in JobIds : FlagValidate(j)
    \/ \E j \in JobIds : FlagCandidate(j, AnalysisReplies)
    \/ \E j \in JobIds : FlagFinish(j)
    \/ \E j \in JobIds : FlagHandler(j)

SpecFlagJobs == InitIndexed /\ [][NextFlagJobs]_vars

\* one flag job over the indexed store, for every kind of threshold, distance and
\* keyword score
NextSearch ==
    \/ SubmitFlag(1 + MaxSoloJobs, ThresholdRequests)
    \/ \E j \in JobIds : FlagStart(j)
    \/ \E j \in JobIds : FlagDiscover(j, MaxCandidates, CosineSimilarities, ProximityScores)
    \/ \E j \in JobIds : FlagValidate(j)
    \/ \E j \in JobIds : FlagCandidate(j, AnalysisReplies)
    \/ \E j \in JobIds : FlagFinish(j)
    \/ \E j \in JobIds : FlagHandler(j)

SpecSearch == InitIndexed /\ [][NextSearch]_vars

\* two bulk-index jobs of one URL each, at work at the same time
NextIngest ==
    \/ SubmitBulk(MaxJobs, MaxItems)
    \/ \E j \in JobIds : BulkStart(j)
    \/ \E j \in JobIds : BulkScrapeIndex(j)
    \/ \E j \in JobIds : BulkInsertDocument(j)
    \/ \E j \in JobIds : BulkFinish(j)
    \/ \E j \in JobIds : BulkHandler(j)

SpecIngest == Init /\ [][NextIngest]_vars

\* InitFlagging is a state SpecFlagJobs reaches
NotYetFlagging == ~InitFlagging

\* InitIndexed is a state SpecBulk reaches
NotYetIndexed == ~InitIndexed

(* ------------------------------ claims -------------------------------- *)
\* the stored status of job j, "absent" when the store holds no such job
JobStatus(coll, j) ==
    IF get_job(coll, j) = None THEN "absent" ELSE get_job(coll, j)[1].status

TerminalStatuses == {"completed", "failed"}
Ended(t) == t.pc \in {"done", "raised"}

AllowedStatusChanges ==
    {<<"pending", "processing">>, <<"processing", "completed">>,
     <<"processing", "failed">>}

\* C1: the stored status of a job only ever changes pending -> processing,
\* processing -> completed or processing -> failed, also when a write raises.
\* The code breaks it: update_job(job_id, "processing") is inside the try, so when
\* it raises the handler writes "failed" over "pending".
C1_StatusTransitions ==
    [][\A j \in JobIds :
          JobStatus(jobs, j) # JobStatus(jobs', j)
              => <<JobStatus(jobs, j), JobStatus(jobs', j)>> \in AllowedStatusChanges]_vars

\* C2: a job whose body has started ends in a terminal status, also when the write
\* of the terminal status raises.  Stated on the ended task: once the task of a job
\* is over, the job is completed or failed.  The code breaks it: when the handler's
\* own update_job raises, the task ends and the job stays as it was.
C2_EndedJobsAreTerminal ==
    \A j \in JobIds : Ended(tasks[j]) => JobStatus(jobs, j) \in TerminalStatuses

\* C3: once the stored status of a job is completed or failed, no step of any
\* task or endpoint changes its status, result or error.
C3_TerminalJobsImmutable ==
    [][\A j \in JobIds :
          LET before == get_job(jobs, j)
              after == get_job(jobs', j) IN
          (before # None /\ before[1].status \in TerminalStatuses)
              => /\ after # None
                 /\ after[1].status = before[1].status
                 /\ after[1].result = before[1].result
                 /\ after[1].error = before[1].error]_vars

\* C3 witness: two jobs have ended in different terminal statuses, so the one that
\* ended first has stayed as it was through the writes of the other
C3_Witness ==
    \E j, k \in JobIds :
      /\ JobStatus(jobs, j) = "completed"
      /\ JobStatus(jobs, k) = "failed"

C5_SubmitReturnsPending ==
    [][Len(handles') > Len(handles) =>
          LET j == Len(handles') IN
          /\ handles'[j].job_id = j
          /\ handles'[j].status = "pending"
          /\ JobStatus(jobs', j) = "pending"
          /\ tasks'[j].pc = "start"]_vars

RECURSIVE Failures(_, _)
\* the failing URLs among the first Len(outs) of urls, with their messages, in order
Failures(urls, outs) ==
    IF outs = <<>> THEN <<>>
    ELSE LET n == Len(outs)
             rest == Failures(urls, SubSeq(outs, 1, n - 1)) IN
         IF outs[n] = "ok" THEN rest
         ELSE Append(rest, [url |-> urls[n], error |-> outs[n]])

\* C6: a per-URL failure never reaches the job's handler, and a completed
\* bulk-index job has dealt with every URL: indexed counts the URLs whose steps all
\* succeeded, failed the others, and failed_urls lists the failing URLs with their
\* messages in submission order.
C6_BulkResult ==
    \A j \in JobIds :
      LET t == tasks[j] IN
      t.kind = "bulk_index" =>
        /\ t.pc \in {"handler", "raised"} => t.err = "store error"
        /\ t.pc = "finish" => Len(t.outcomes) = Len(t.urls)
        /\ JobStatus(jobs, j) = "completed" =>
             LET r == get_job(jobs, j)[1].result[1] IN
             /\ Len(t.outcomes) = Len(t.urls)
             /\ r.indexed = Cardinality({i \in 1..Len(t.urls) : t.outcomes[i] = "ok"})
             /\ r.failed = Cardinality({i \in 1..Len(t.urls) : t.outcomes[i] # "ok"})
             /\ r.indexed + r.failed = Len(t.urls)
             /\ r.failed_urls = Failures(t.urls, t.outcomes)

\* C6 witness: a completed job whose first URL failed and whose second URL was
\* indexed
C6_Witness ==
    \E j \in JobIds :
      /\ JobStatus(jobs, j) = "completed"
      /\ Len(tasks[j].urls) = 2
      /\ tasks[j].outcomes[1] # "ok"
      /\ tasks[j].outcomes[2] = "ok"

\* the document ids of a sequence of candidates or summary entries
Ids(seq) == {seq[i].document_id : i \in 1..Len(seq)}

\* position of the candidate matching_docs[i] in validated_docs, 0 when dropped
ValidatedAt(t, i) ==
    IF \E k \in 1..Len(t.validated_docs) : t.validated_docs[k] = t.matching_docs[i]
    THEN CHOOSE k \in 1..Len(t.validated_docs) : t.validated_docs[k] = t.matching_docs[i]
    ELSE 0

\* the flag loop is over for task t
LoopsOver(t) == t.kind = "flag_documents" /\ t.pc = "finish"

\* an exception was raised while candidate i was validated, analysed or persisted
RaisedFor(t, i) ==
    \/ i <= Len(t.replies) /\ t.replies[i] = 0
    \/ /\ ValidatedAt(t, i) \in 1..Len(t.handled)
       /\ LET h == t.handled[ValidatedAt(t, i)] IN
          \/ h.persist # "ok"
          \/ Truthy(t.what_changed) /\ (h.reply.raises \/ ~h.reply.json)

\* C7 as claimed: a candidate for which any of the three stages raised is absent
\* from flagged_documents.  It fails for the exceptions the analyzer absorbs: the
\* candidate of a failed classifier call is kept and flagged.
C7_FailingCandidateAbsent ==
    \A j \in JobIds :
      LET t == tasks[j] IN
      LoopsOver(t) =>
        \A i \in 1..Len(t.matching_docs) :
          RaisedFor(t, i) => t.matching_docs[i].document_id \notin Ids(t.flagged_docs_summary)

\* C7 amended: no per-candidate exception reaches the job's handler; when the loops
\* are over every candidate was validated and every validated candidate was dealt
\* with; flagged_documents holds, in order, exactly the validated candidates whose
\* flag was written; a candidate whose exception reached the handler of the flag
\* loop is absent from it.
C7_PartialFailureIsolation ==
    \A j \in JobIds :
      LET t == tasks[j] IN
      t.kind = "flag_documents" =>
        /\ t.pc \in {"handler", "raised"} => t.err \in {"store error", "search error"}
        /\ LoopsOver(t) =>
             /\ Len(t.replies) = Len(t.matching_docs)
             /\ Len(t.handled) = Len(t.validated_docs)
             /\ t.flagged_count = Len(t.flagged_docs_summary)
             /\ Ids(t.flagged_docs_summary) =
                  {t.validated_docs[k].document_id :
                      k \in {x \in 1..Len(t.handled) : t.handled[x].persist = "ok"}}
             /\ \A k \in 1..Len(t.handled) :
                  t.handled[k].persist # "ok" =>
                    t.validated_docs[k].document_id \notin Ids(t.flagged_docs_summary)

\* C7 witness: the flag write of the first validated candidate raised and the
\* second was flagged all the same
C7_Witness ==
    \E j \in JobIds :
      /\ LoopsOver(tasks[j])
      /\ Len(tasks[j].handled) = 2
      /\ tasks[j].handled[1].persist = "raised"
      /\ tasks[j].handled[2].persist = "ok"

\* the classifier replies that say yes
AffirmativeReplies == {1, 2}

\* C8: a candidate whose classifier call failed is validated and reaches the
\* persist stage; a candidate is dropped only on an answer that is not a yes.
C8_ValidationFailOpen ==
    \A j \in JobIds :
      LET t == tasks[j] IN
      t.kind = "flag_documents" =>
        \A i \in 1..Len(t.replies) :
          /\ t.replies[i] = 0 =>
               /\ ValidatedAt(t, i) # 0
               /\ LoopsOver(t) => ValidatedAt(t, i) <= Len(t.handled)
          /\ ValidatedAt(t, i) = 0 =>
               t.replies[i] # 0 /\ t.replies[i] \notin AffirmativeReplies
          /\ t.replies[i] \in AffirmativeReplies => ValidatedAt(t, i) # 0

\* C8 witness: the classifier call failed for a candidate and that candidate was
\* flagged
C8_Witness ==
    \E j \in JobIds :
      LET t == tasks[j] IN
      /\ LoopsOver(t)
      /\ \E i \in 1..Len(t.replies) :
           /\ t.replies[i] = 0
           /\ ValidatedAt(t, i) # 0
           /\ t.handled[ValidatedAt(t, i)].persist = "ok"

\* C9: with what_changed given, a candidate whose analysis failed (capability
\* error or malformed output) is still flagged, with no suggestions and a
\* diagnostic note in overall_impact.  The code breaks it: an 'analysis' member
\* that is no object, or a 'sections_needing_update' member without a length,
\* raises in the flag loop and the candidate is not flagged.
C9_AnalysisFailSoft ==
    \A j \in JobIds :
      LET t == tasks[j] IN
      (t.kind = "flag_documents" /\ Truthy(t.what_changed)) =>
        \A k \in 1..Len(t.handled) :
          LET h == t.handled[k] IN
          (h.reply # WellFormed /\ h.persist # "raised") =>
            /\ h.flag # None
            /\ h.flag[1].change_suggestions = PyList(0)
            /\ Get(h.flag[1].analysis, "overall_impact", PyNone)
                   = PyStr("Error during analysis")

\* the flag task j writes in this step, for document d
WritesFlag(j, d) ==
    /\ Len(tasks'[j].handled) > Len(tasks[j].handled)
    /\ tasks'[j].handled[Len(tasks'[j].handled)].persist = "ok"
    /\ tasks[j].validated_docs[tasks[j].i].document_id = d

\* C10: the flag store never holds two Flags of one document_id; a flag write
\* leaves the record with the law and the confidence of that write, and no other
\* step (status update, unflag, another document's flag) changes them.
C10_OneFlagLatestWins ==
    [][\A d \in DocIds :
          /\ Cardinality(Matching(flags', "document_id", d)) <= 1
          /\ \A j \in JobIds :
               WritesFlag(j, d) =>
                 \E n \in Matching(flags', "document_id", d) :
                   /\ flags'[n].flagged_for_law = tasks[j].law_name
                   /\ flags'[n].confidence = tasks[j].validated_docs[tasks[j].i].confidence
          /\ (\A j \in JobIds : ~WritesFlag(j, d)) =>
               \A n \in Matching(flags', "document_id", d) :
                 \E m \in Matching(flags, "document_id", d) :
                   /\ flags'[n].flagged_for_law = flags[m].flagged_for_law
                   /\ flags'[n].confidence = flags[m].confidence]_vars

\* C10 witness: both flag tasks have written their flag for the same document,
\* its status was updated, and the store holds one Flag
C10_Witness ==
    /\ Len(flags) = 1
    /\ flags[1].status = "reviewed"
    /\ \E j, k \in JobIds :
         /\ j # k
         /\ tasks[j].handled # <<>> /\ tasks[j].handled[1].persist = "ok"
         /\ tasks[k].handled # <<>> /\ tasks[k].handled[1].persist = "ok"

\* the Flag the flag task j has just written, in the step where it writes one
WrittenFlag(j) == tasks'[j].handled[Len(tasks'[j].handled)].flag[1]

\* C11: a flag write for a document_id leaves, under that document_id, a record
\* that has status flagged and consists only of the fields of that write: nothing
\* of an earlier flagging or review (reviewed_at, analysis, ...) is left in it.
\* The code breaks it: create_flag is a $set of the new fields over the stored
\* record, and flag_data never holds reviewed_at, and holds analysis only when
\* what_changed is given.
C11_FlagOverwrittenWhole ==
    [][\A d \in DocIds : \A j \in JobIds :
          WritesFlag(j, d) =>
            \A n \in Matching(flags', "document_id", d) :
              /\ flags'[n].status = "flagged"
              /\ flags'[n] = WrittenFlag(j)]_vars

\* the Flag writes of task t that succeeded
FlagWrites(t) == {k \in 1..Len(t.handled) : t.handled[k].persist = "ok"}

\* the counts of a flag result, but for analyzed
FlagCounts(t, r) ==
    /\ r.flagged <= r.validated
    /\ r.validated <= r.total_found
    /\ Len(r.flagged_documents) = r.flagged
    /\ r.flagged = Cardinality(FlagWrites(t))

\* C12 as claimed: in the result of a completed flag job flagged <= validated <=
\* total_found, flagged_documents has flagged entries, flagged counts the Flag
\* writes that succeeded, and analyzed is flagged when what_changed was supplied
\* and 0 when it was not.  It fails for a what_changed supplied as the empty
\* string: no analysis runs and analyzed is 0.
C12_AnalyzedWhenSupplied ==
    \A j \in JobIds :
      LET t == tasks[j] IN
      (t.kind = "flag_documents" /\ JobStatus(jobs, j) = "completed") =>
        LET r == get_job(jobs, j)[1].result[1] IN
        /\ FlagCounts(t, r)
        /\ r.analyzed = IF t.what_changed # None THEN r.flagged ELSE 0

\* C12 amended: the same counts, with analyzed equal to flagged when what_changed
\* is a non-empty text, and 0 when it is absent or empty.
C12_FlagResultCounts ==
    \A j \in JobIds :
      LET t == tasks[j] IN
      (t.kind = "flag_documents" /\ JobStatus(jobs, j) = "completed") =>
        LET r == get_job(jobs, j)[1].result[1] IN
        /\ FlagCounts(t, r)
        /\ r.analyzed = IF t.what_changed \notin {None, Some("")} THEN r.flagged ELSE 0

\* C12 witness: a completed flag job with a non-empty what_changed that found two
\* candidates, validated both and flagged one
C12_Witness ==
    \E j \in JobIds :
      /\ tasks[j].kind = "flag_documents"
      /\ JobStatus(jobs, j) = "completed"
      /\ tasks[j].what_changed = Some("amended")
      /\ LET r == get_job(jobs, j)[1].result[1] IN
         r.total_found = 2 /\ r.validated = 2 /\ r.flagged = 1 /\ r.analyzed = 1

\* C13: a flag request whose threshold lies outside (0,1] creates no job and
\* starts no task.  The code breaks it: FlagRequest declares similarity_threshold
\* as a plain float and flag_documents creates the job whatever its value.
C13_ThresholdOutOfRangeRejected ==
    [][Len(tasks') > Len(tasks) =>
          LET t == tasks'[Len(tasks')] IN
          t.kind = "flag_documents" => (t.threshold > 0 /\ t.threshold <= 100)]_vars

\* some bulk-index task has ingested the source of document d with success
Ingested(tsks, d) ==
    \E j \in 1..Len(tsks) :
      /\ tsks[j].kind = "bulk_index"
      /\ \E i \in 1..Len(tsks[j].outcomes) :
           tsks[j].outcomes[i] = "ok" /\ generate_doc_id(tsks[j].urls[i]) = d

\* C14: the metadata store holds exactly one Document record per source ingested
\* with success, and a record once written is never changed.  The code breaks the
\* first part: insert_document is an insert_one, so the second ingestion of a URL
\* adds a second record under the same document_id.
C14_OneDocumentRecordPerSource ==
    [][/\ Len(documents') >= Len(documents)
       /\ \A n \in 1..Len(documents) : documents'[n] = documents[n]
       /\ \A d \in DocIds :
            Cardinality(Matching(documents', "document_id", d)) =
                IF Ingested(tasks', d) THEN 1 ELSE 0]_vars

\* task j has its chunks upserted in this step
IndexesChunks(j) ==
    /\ tasks[j].kind = "bulk_index"
    /\ tasks[j].pc = "scrape"
    /\ tasks'[j].pc = "insert"

\* the chunk ids of a sequence of chunks, in order
ChunkIds(chunks) == [i \in 1..Len(chunks) |-> chunks[i].chunk_id]

\* the store holds each of the chunks once, as an ingestion of that text leaves it
HoldsOnce(store, chunks) ==
    \A i \in 1..Len(chunks) : CopiesIn(chunks[i], store) = 1

\* C15: chunking the same URL and text twice yields the same document_id and the
\* same sequence of chunk ids, and an ingestion of a URL whose text the store
\* already holds leaves the store as it was, with no duplicate entry.
C15_ReingestionIdempotent ==
    [][/\ \A j, k \in JobIds :
            LET a == tasks'[j]
                b == tasks'[k] IN
            (/\ a.kind = "bulk_index" /\ a.pc = "insert"
             /\ b.kind = "bulk_index" /\ b.pc = "insert"
             /\ a.urls[a.i] = b.urls[b.i]
             /\ Len(a.chunks) = Len(b.chunks))
              => /\ ChunkIds(a.chunks) = ChunkIds(b.chunks)
                 /\ \A i \in 1..Len(a.chunks) :
                      a.chunks[i].document_id = b.chunks[1].document_id
       /\ \A j \in JobIds :
            (IndexesChunks(j) /\ HoldsOnce(chunkStore, tasks'[j].chunks))
              => /\ chunkStore' = chunkStore
                 /\ \A e \in BagToSet(chunkStore') : CopiesIn(e, chunkStore') = 1]_vars

\* C15 witness: two jobs have ingested the same URL with the same text (two chunks
\* each, two Document records) and the store holds the two chunks once each
C15_Witness ==
    /\ Len(documents) = 2
    /\ documents[1].url = documents[2].url
    /\ documents[1].chunk_count = 2
    /\ documents[2].chunk_count = 2
    /\ BagCardinality(chunkStore) = 2
    /\ HoldsOnce(chunkStore, process(documents[1].url, 2))

\* the entries the store holds for document d
EntriesOf(store, d) == {e \in BagToSet(store) : e.document_id = d}

\* a bulk-index task is between the upsert of the chunks of d and its next URL
IngestionInProgress(d) ==
    \E j \in JobIds :
      /\ tasks[j].kind = "bulk_index"
      /\ tasks[j].pc = "insert"
      /\ tasks[j].chunks[1].document_id = d

\* C16: when no ingestion of a document is in progress, the chunk_index values of
\* its stored chunks are exactly 0..n-1 and every chunk carries total_chunks = n.
\* The code breaks it: index_chunks only upserts the new chunks, so after a
\* re-ingestion that yields fewer chunks the chunks of the earlier ingestion with
\* a higher index stay in the store, with the earlier total_chunks.
C16_ChunkIndexContiguous ==
    \A d \in DocIds :
      ~IngestionInProgress(d) =>
        LET es == EntriesOf(chunkStore, d)
            n == Cardinality(es) IN
        /\ {e.chunk_index : e \in es} = 0..(n - 1)
        /\ \A e \in es : e.total_chunks = n

\* the document ids under which task t has written a Flag, a Document record or
\* chunks so far
WrittenIds(t) ==
    IF t.kind = "flag_documents"
    THEN {t.validated_docs[k].document_id : k \in FlagWrites(t)}
    ELSE {generate_doc_id(t.urls[i]) :
             i \in {x \in 1..Len(t.outcomes) : t.outcomes[x] \in {"ok", "insert error"}}}
         \cup (IF t.pc = "insert" THEN {t.chunks[1].document_id} ELSE {})

\* the job of task t has been submitted and its task has not ended
InFlight(t) == ~Ended(t)

\* C17: two jobs in flight at the same time never write a record under the same
\* document_id, and a job record is written by its own task only.  The code
\* breaks the first part: nothing keeps two flag jobs (or two bulk-index jobs)
\* from handling the same document, and both write its Flag.
C17_DisjointKeys ==
    [][/\ \A j, k \in JobIds :
            (j # k /\ InFlight(tasks[j]) /\ InFlight(tasks[k]))
              => (WrittenIds(tasks'[j]) \ WrittenIds(tasks[j]))
                     \cap WrittenIds(tasks'[k]) = {}
       /\ \A n \in 1..Len(jobs) :
            jobs'[n] # jobs[n] => tasks'[jobs[n].job_id] # tasks[jobs[n].job_id]]_vars

\* C18: every Flag in the store has a confidence in [0,1] (0..100 hundredths),
\* whatever the threshold of the request and for every similarity 1 - distance
\* of a cosine distance in [0,2].
C18_ConfidenceInUnitInterval ==
    /\ \A n \in 1..Len(flags) : flags[n].confidence >= 0 /\ flags[n].confidence <= 100
    /\ \A j \in JobIds : \A i \in 1..Len(tasks[j].matching_docs) :
         /\ tasks[j].matching_docs[i].confidence >= 0
         /\ tasks[j].matching_docs[i].confidence <= 100

\* C18 witness: a request with a negative threshold has flagged a document whose
\* best similarity is negative and that no keyword matched; its confidence is 0
C18_Witness ==
    \E j \in JobIds : \E k \in 1..Len(tasks[j].handled) :
      /\ tasks[j].threshold < 0
      /\ tasks[j].handled[k].persist = "ok"
      /\ tasks[j].validated_docs[k].semantic_score < 0
      /\ tasks[j].validated_docs[k].keyword_score = 0
      /\ tasks[j].validated_docs[k].confidence = 0
      /\ tasks[j].validated_docs[k].match_type = "keyword"
      /\ \E n \in 1..Len(flags) :
           flags[n].document_id = tasks[j].validated_docs[k].document_id

\* what a status update of document d to status st leaves of the Flags
StatusUpdateFrame(d, st) ==
    /\ Len(flags') = Len(flags)
    /\ \A n \in 1..Len(flags) :
         IF n \in Matching(flags, "document_id", d)
         THEN /\ flags'[n].status = st
              /\ DOMAIN flags'[n] = (DOMAIN flags[n]) \cup {"reviewed_at"}
              /\ \A f \in (DOMAIN flags[n]) \ {"status", "reviewed_at"} :
                   flags'[n][f] = flags[n][f]
         ELSE flags'[n] = flags[n]

\* C19: a status update of a document with a Flag sets the requested status
\* whatever the stored one is, changes nothing of that record but status and
\* reviewed_at, and leaves every other Flag as it is; for a document without a
\* Flag it creates no record.  Stated on the steps of the flag endpoints that
\* delete nothing: such a step is the update of some document to some status, and
\* it leaves the Flags as that update should.
C19_StatusUpdateFrame ==
    [][(tasks' = tasks /\ flags' # flags /\ Len(flags') >= Len(flags)) =>
          \E d \in DocIds, st \in FlagStatuses :
            /\ flags' = update_flag_status(flags, d, st)
            /\ Matching(flags, "document_id", d) # {}
            /\ StatusUpdateFrame(d, st)]_vars

\* C19 witness: a Flag written by one flag write only that carries reviewed_at and
\* the status flagged: a status update has set it back to flagged
C19_Witness ==
    /\ Len(flags) = 1
    /\ "reviewed_at" \in DOMAIN flags[1]
    /\ flags[1].status = "flagged"
    /\ Cardinality({j \in JobIds : FlagWrites(tasks[j]) # {}}) = 1

\* C20: a URL whose fetched text yields zero chunks (pieces[i] is Some(0)) is not
\* an error of the bulk-index job: no exception of the task's own is recorded for
\* it in failed_urls.  The code breaks it: process returns [] and index_chunks
\* returns 0, but the document write evaluates chunks[0] and raises IndexError,
\* which the loop records for the URL.
C20_EmptyTextIsNoError ==
    \A j \in JobIds :
      LET t == tasks[j] IN
      t.kind = "bulk_index" =>
        \A i \in 1..Len(t.outcomes) :
          t.pieces[i] = Some(0) => t.outcomes[i] \in {"ok", "insert error"}

\* C21: the candidates of a discovery are exactly the documents either search
\* returned, one candidate each; a document both searches returned with nonzero
\* scores has the larger score as confidence and match_type semantic+keyword, a
\* document only the semantic search returned has its semantic score and
\* match_type semantic (whatever that score is, 0 and below included), a document
\* only the keyword search returned its keyword score and match_type keyword.
\* The code breaks it: _merge_results tests sem_score > 0, so a document the
\* semantic search returned with a similarity of 0 or below (it passed a threshold
\* that is not positive) gets the keyword score (0.0 when no keyword matched) and
\* match_type keyword.
C21_MergeBySignal ==
    \A j \in JobIds :
      LET t == tasks[j]
          sem == t.semantic_results
          kw == t.keyword_results IN
      /\ Ids(t.matching_docs) = (DOMAIN sem) \cup (DOMAIN kw)
      /\ Len(t.matching_docs) = Cardinality((DOMAIN sem) \cup (DOMAIN kw))
      /\ \A i \in 1..Len(t.matching_docs) :
           LET m == t.matching_docs[i]
               d == m.document_id IN
           /\ (d \in DOMAIN sem /\ d \in DOMAIN kw /\ sem[d] # 0 /\ kw[d] # 0) =>
                /\ m.confidence = IF sem[d] >= kw[d] THEN sem[d] ELSE kw[d]
                /\ m.match_type = "semantic+keyword"
           /\ (d \in DOMAIN sem /\ d \notin DOMAIN kw) =>
                m.confidence = sem[d] /\ m.match_type = "semantic"
           /\ (d \notin DOMAIN sem /\ d \in DOMAIN kw) =>
                m.confidence = kw[d] /\ m.match_type = "keyword"

\* position of document d in a sequence of document ids
PositionOf(seq, d) == CHOOSE n \in 1..Len(seq) : seq[n] = d

\* C22: the candidates of a discovery are listed by descending confidence, and
\* candidates of equal confidence in the order in which the searches first
\* returned them.  The code breaks the second part: the stable sort is applied to
\* a list built by iterating the set all_doc_ids, whose order is the order of the
\* hashes of the ids, not the order of the search results.
C22_SortedStable ==
    \A j \in JobIds :
      LET t == tasks[j] IN
      \A i, k \in 1..Len(t.matching_docs) :
        i < k =>
          /\ t.matching_docs[i].confidence >= t.matching_docs[k].confidence
          /\ t.matching_docs[i].confidence = t.matching_docs[k].confidence =>
               PositionOf(t.encounter, t.matching_docs[i].document_id)
                   < PositionOf(t.encounter, t.matching_docs[k].document_id)

\* the part of C22 the code keeps: descending confidence
SortedByConfidence ==
    \A j \in JobIds :
      \A i, k \in 1..Len(tasks[j].matching_docs) :
        i < k => tasks[j].matching_docs[i].confidence >= tasks[j].matching_docs[k].confidence

(* ------------------------- the keyword search ------------------------- *)
\* chunks one scan of the collection lists
MaxScanned == 2

\* stop_words of _keyword_search
stop_words == {"the", "a", "an", "and", "or", "of", "in", "on", "at", "to", "for", "with", "by"}

\* max_distance of _keyword_search
max_distance == 15

\* float('inf'): larger than every span of a text of the model
Infinity == 1000

\* str.lower of a word of a query
Lower(w) ==
    CASE w = "Data" -> "data" [] w = "Privacy" -> "privacy" [] w = "Act" -> "act"
      [] w = "Law" -> "law" [] w = "EU" -> "eu" [] OTHER -> w

\* len of a word of a query
WordLen(w) ==
    CASE Lower(w) = "data" -> 4 [] Lower(w) = "privacy" -> 7 [] Lower(w) = "act" -> 3
      [] Lower(w) = "law" -> 3 [] Lower(w) = "eu" -> 2 [] Lower(w) = "of" -> 2
      [] OTHER -> 3

\* query.split() of the law names searched for
Queries ==
    {<<"EU", "Act">>, <<"Privacy", "Act">>, <<"Data", "Privacy", "Act">>,
     <<"Privacy", "of", "Data", "Act">>, <<"Data", "Privacy", "Act", "Law">>,
     <<"Data", "Privacy", "Act", "data">>}

\* [w.lower() for w in query.split() if w.lower() not in stop_words and len(w) > 2]
query_words(query) ==
    LET kept == SelectSeq(query, LAMBDA w : Lower(w) \notin stop_words /\ WordLen(w) > 2)
    IN [i \in 1..Len(kept) |-> Lower(kept[i])]

\* A stored text is given by where the words of the queries occur in it: text[q]
\* is the set of indices i such that q is a substring of doc_text.lower().split()[i]
\* The places are such that the spans 0, 1, 15, 16, 30, 31, 45 and 46 occur.
DataPlaces == {S \in SUBSET {0, 16, 46} : Cardinality(S) <= 2}
PrivacyPlaces == {{}, {15}, {16}, {45}}
ActPlaces == {{}, {0}, {46}}
Texts ==
    {[data |-> a, privacy |-> b, act |-> c] :
        a \in DataPlaces, b \in PrivacyPlaces, c \in ActPlaces}

RECURSIVE Ascending(_)
\* the members of a set of numbers as a list in ascending order
Ascending(S) ==
    IF S = {} THEN <<>>
    ELSE LET m == CHOOSE x \in S : \A y \in S : x <= y IN <<m>> \o Ascending(S \ {m})

\* positions = [i for i, w in enumerate(words) if query_word in w]
positions(text, query_word) ==
    IF query_word \in DOMAIN text THEN Ascending(text[query_word]) ELSE <<>>

RECURSIVE FirstOccurrences(_)
\* the keys of a dict filled in the order of the list: each value once, at the
\* place of its first occurrence
FirstOccurrences(seq) ==
    IF seq = <<>> THEN <<>>
    ELSE LET init == FirstOccurrences(SubSeq(seq, 1, Len(seq) - 1))
             last == seq[Len(seq)] IN
         IF \E i \in 1..Len(init) : init[i] = last THEN init ELSE Append(init, last)

\* the keys of word_positions: the query words that have a position, in dict order
word_positions(text, qws) ==
    SelectSeq(FirstOccurrences(qws), LAMBDA q : positions(text, q) # <<>>)

RECURSIVE Product(_)
\* itertools.product of a list of lists, in its order
Product(lists) ==
    IF lists = <<>> THEN << <<>> >>
    ELSE LET rest == Product(Tail(lists))
             head == Head(lists) IN
         [n \in 1..(Len(head) * Len(rest)) |->
             <<head[((n - 1) \div Len(rest)) + 1]>> \o rest[((n - 1) % Len(rest)) + 1]]

\* max(positions) - min(positions)
Span(ps) ==
    LET S == {ps[i] : i \in 1..Len(ps)} IN
    (CHOOSE x \in S : \A y \in S : x >= y) - (CHOOSE x \in S : \A y \in S : x <= y)

RECURSIVE MinSpanLoop(_, _)
\* the loop over the product: it stops at the first combination that brings
\* min_span to max_distance or below
MinSpanLoop(combos, min_span) ==
    IF combos = <<>> THEN min_span
    ELSE LET span == Span(Head(combos))
             m == IF span < min_span THEN span ELSE min_span IN
         IF m <= max_distance THEN m ELSE MinSpanLoop(Tail(combos), m)

\* max(2, int(len(query_words) * 0.7))
required_count(qws) ==
    LET r == (Len(qws) * 7) \div 10 IN IF r > 2 THEN r ELSE 2

\* min(1.0, score * 1.2), in hundredths
Boosted(score) == IF (score * 120) \div 100 > 100 THEN 100 ELSE (score * 120) \div 100

\* the body of the loop of _keyword_search for one chunk: None when the chunk is
\* skipped, its score otherwise
chunk_score(text, qws) ==
    LET keys == word_positions(text, qws)
        found_count == Len(keys)
        min_span == MinSpanLoop(Product([i \in 1..Len(keys) |-> positions(text, keys[i])]),
                                Infinity)
        score == IF min_span <= max_distance THEN 100
                 ELSE IF min_span <= max_distance * 2 THEN 70 ELSE 40 IN
    IF found_count < required_count(qws) THEN None
    ELSE IF min_span > max_distance * 3 THEN None
    ELSE IF found_count = Len(qws) THEN Some(Boosted(score)) ELSE Some(score)

\* the call _keyword_search(query) over a collection that lists total chunks;
\* text is the text of the chunk of the last round (None before the first), and
\* scores records the document and the score (None when skipped) of every round
NewSearch(query, total) ==
    [pc |-> "start", query |-> query, total |-> total, query_words |-> <<>>,
     text |-> None, scores |-> <<>>, doc_matches |-> <<>>]

\* the two early returns of _keyword_search, and the query words
KeywordStart ==
    /\ search.pc = "start"
    /\ search' = [search EXCEPT
          !.query_words = IF search.total = 0 THEN <<>> ELSE query_words(search.query),
          !.pc = IF search.total = 0 \/ Len(query_words(search.query)) < 2
                 THEN "done" ELSE "scan"]
    /\ UNCHANGED <<jobs, documents, flags, chunkStore, tasks, handles, responses>>

\* one round of the loop over the chunks: the next chunk the collection lists is
\* a chunk of document d with some text
KeywordScanChunk ==
    /\ search.pc = "scan"
    /\ \E d \in DocIds, text \in Texts :
         LET sc == chunk_score(text, search.query_words)
             dm == search.doc_matches
             best == IF sc = None THEN dm
                     ELSE IF d \in DOMAIN dm
                          THEN [dm EXCEPT ![d] = IF sc[1] > @ THEN sc[1] ELSE @]
                          ELSE [x \in (DOMAIN dm) \cup {d} |-> IF x = d THEN sc[1] ELSE dm[x]]
             scores == Append(search.scores, [document_id |-> d, score |-> sc]) IN
         search' = [search EXCEPT !.text = Some(text),
                                  !.scores = scores,
                                  !.doc_matches = best,
                                  !.pc = IF Len(scores) = search.total THEN "done"
                                         ELSE "scan"]
    /\ UNCHANGED <<jobs, documents, flags, chunkStore, tasks, handles, responses>>

\* a keyword search for one of the queries, over a collection of up to MaxScanned chunks
InitKeyword ==
    /\ jobs = <<>>
    /\ documents = <<>>
    /\ flags = <<>>
    /\ chunkStore = EmptyBag
    /\ tasks = <<>>
    /\ handles = <<>>
    /\ search \in {NewSearch(q, n) : q \in Queries, n \in 0..MaxScanned}
    /\ responses = <<>>

NextKeyword ==
    \/ KeywordStart
    \/ KeywordScanChunk

SpecKeyword == InitKeyword /\ [][NextKeyword]_vars

\* the distinct query words that occur in the text
PresentTokens(text, qws) ==
    {q \in {qws[i] : i \in 1..Len(qws)} : q \in DOMAIN text /\ text[q] # {}}

\* max(2, ceil(0.7 * token_count))
CeilRequired(qws) ==
    LET r == (Len(qws) * 7 + 9) \div 10 IN IF r > 2 THEN r ELSE 2

\* the round of the scan that has just ended
LastRound == search.scores[Len(search.scores)]

\* C23: a chunk gets a keyword score only if the number of distinct query words
\* present in it is at least max(2, ceil(0.7 * token_count)).  The code breaks it:
\* required_count is max(2, int(len(query_words) * 0.7)), which rounds down, so
\* with 3 or 4 query words a chunk holding 2 of them is scored.
C23_QualifiesByCeil ==
    (search.pc # "none" /\ search.text # None /\ LastRound.score # None) =>
        Cardinality(PresentTokens(search.text[1], search.query_words))
            >= CeilRequired(search.query_words)

\* the least span over all choices of one position for each word of P
TrueMinSpan(text, P) ==
    LET choices == {f \in [P -> UNION {text[q] : q \in P}] : \A q \in P : f[q] \in text[q]}
        spread(f) == (CHOOSE x \in {f[q] : q \in P} : \A y \in {f[q] : q \in P} : x >= y)
                     - (CHOOSE x \in {f[q] : q \in P} : \A y \in {f[q] : q \in P} : x <= y)
        spans == {spread(f) : f \in choices}
    IN CHOOSE m \in spans : \A n \in spans : m <= n

\* the score of a span: None when the chunk is discarded
Tier(span) ==
    IF span <= 15 THEN Some(100)
    ELSE IF span <= 30 THEN Some(70)
    ELSE IF span <= 45 THEN Some(40)
    ELSE None

\* the tier times 1.2, at most 1.0, when boost holds
TierBoosted(span, boost) ==
    IF Tier(span) = None \/ ~boost THEN Tier(span)
    ELSE LET b == (Tier(span)[1] * 12) \div 10 IN Some(IF b > 100 THEN 100 ELSE b)

\* every document's keyword score is the greatest score of its scored chunks
BestChunkPerDocument ==
    \A d \in DocIds :
      LET S == {search.scores[i].score[1] :
                   i \in {k \in 1..Len(search.scores) :
                            /\ search.scores[k].document_id = d
                            /\ search.scores[k].score # None}} IN
      IF S = {} THEN d \notin DOMAIN search.doc_matches
      ELSE /\ d \in DOMAIN search.doc_matches
           /\ search.doc_matches[d] \in S
           /\ \A x \in S : x <= search.doc_matches[d]

\* C24: the score of a qualifying chunk is the tier of the least span over all
\* choices of one position per present query word, times 1.2 and at most 1.0
\* exactly when every query word is present, and a document's keyword score is
\* the greatest score of its chunks.  The code breaks the boost: it tests
\* found_count == len(query_words), where found_count counts the distinct words
\* found and len(query_words) counts a repeated word of the query twice, so for a
\* query with a repeated word no chunk is boosted.
C24_ScoreByMinSpan ==
    search.pc # "none" =>
      /\ BestChunkPerDocument
      /\ search.text # None =>
           LET text == search.text[1]
               qws == search.query_words
               P == PresentTokens(text, qws) IN
           Cardinality(P) >= CeilRequired(qws) =>
             LastRound.score =
                 TierBoosted(TrueMinSpan(text, P), \A i \in 1..Len(qws) : qws[i] \in P)

\* what the code keeps of C23 and C24: a chunk is scored when the distinct words
\* found are at least max(2, floor(0.7 * token_count)) and the least span is at
\* most 45; its score is the tier of the least span (the early exit of the loop
\* does not change it), boosted when the words found are as many as the words of
\* the query; a document's score is the greatest score of its chunks
KeywordScoreAsCoded ==
    search.pc # "none" =>
      /\ BestChunkPerDocument
      /\ search.text # None =>
           LET text == search.text[1]
               qws == search.query_words
               P == PresentTokens(text, qws) IN
           LastRound.score =
               IF Cardinality(P) < required_count(qws) THEN None
               ELSE TierBoosted(TrueMinSpan(text, P), Cardinality(P) = Len(qws))

(* ------------------- the chunks attached to a candidate --------------- *)
\* chunks of the stored document whose text is combined
MaxStored == 3

\* documents=texts of index_chunks: the text stored under a chunk id
TextOf(chunk_id) == <<"text", chunk_id>>

\* doc_matches[doc_id]['chunks'].append({'chunk_id': chunk_id, 'text': doc})
AttachedChunk(e) == [chunk_id |-> e.chunk_id, text |-> TextOf(e.chunk_id)]

\* the lists of chunks of one document a search may attach: the chunks that pass,
\* in the order in which the collection returns them
Hits(stored) ==
    UNION {{[i \in 1..Len(o) |-> AttachedChunk(o[i])] : o \in Orderings(S)} :
              S \in SUBSET {stored[i] : i \in 1..Len(stored)}}

\* list(all_chunks.values()) after all_chunks[chunk['chunk_id']] = chunk for the
\* chunks of both searches: one chunk per id, at the place of its first occurrence
all_chunks(sem_chunks, kw_chunks) ==
    LET both == sem_chunks \o kw_chunks
        ids == FirstOccurrences([i \in 1..Len(both) |-> both[i].chunk_id]) IN
    [n \in 1..Len(ids) |->
        both[CHOOSE i \in 1..Len(both) :
                /\ both[i].chunk_id = ids[n]
                /\ \A k \in 1..Len(both) : both[k].chunk_id = ids[n] => k <= i]]

\* the key of the sort of combine_chunks_for_analysis: section_index and
\* chunk_index of the member 'metadata' of the chunk, 0 for what is absent
SortKey(chunk) ==
    IF "metadata" \in DOMAIN chunk
    THEN <<IF "section_index" \in DOMAIN chunk.metadata
           THEN chunk.metadata.section_index ELSE 0,
           IF "chunk_index" \in DOMAIN chunk.metadata
           THEN chunk.metadata.chunk_index ELSE 0>>
    ELSE <<0, 0>>

\* comparison of two keys as Python compares tuples
KeyLessEq(a, b) == a[1] < b[1] \/ (a[1] = b[1] /\ a[2] <= b[2])

\* sorted(chunks, key=...) is stable: x goes behind the chunks whose key is not larger
InsertByKey(sorted, x) ==
    LET k == Cardinality({i \in 1..Len(sorted) : KeyLessEq(SortKey(sorted[i]), SortKey(x))}) IN
    SubSeq(sorted, 1, k) \o <<x>> \o SubSeq(sorted, k + 1, Len(sorted))

RECURSIVE SortByKey(_)
SortByKey(seq) ==
    IF seq = <<>> THEN <<>>
    ELSE InsertByKey(SortByKey(SubSeq(seq, 1, Len(seq) - 1)), seq[Len(seq)])

\* DocumentAnalyzer.combine_chunks_for_analysis: the texts in the order of the
\* join (the separator is left out)
combine_chunks_for_analysis(chunks) ==
    LET sorted_chunks == SortByKey(chunks) IN
    [i \in 1..Len(sorted_chunks) |-> sorted_chunks[i].text]

\* the retrieval of the chunks of one stored document for one query
NewRetrieval(stored) ==
    [pc |-> "semantic", stored |-> stored, sem_chunks |-> <<>>, kw_chunks |-> <<>>,
     chunks |-> <<>>, full_text |-> <<>>]

\* _semantic_search: the chunks of the document with similarity >= threshold,
\* by ascending distance
RetrieveSemantic ==
    /\ search.pc = "semantic"
    /\ \E hits \in Hits(search.stored) :
         search' = [search EXCEPT !.sem_chunks = hits, !.pc = "keyword"]
    /\ UNCHANGED <<jobs, documents, flags, chunkStore, tasks, handles, responses>>

\* _keyword_search: the chunks of the document that are scored, in the order of
\* collection.get; a document neither search returned is no candidate
RetrieveKeyword ==
    /\ search.pc = "keyword"
    /\ \E hits \in Hits(search.stored) :
         search' = [search EXCEPT !.kw_chunks = hits,
                                  !.pc = IF search.sem_chunks = <<>> /\ hits = <<>>
                                         THEN "done" ELSE "merge"]
    /\ UNCHANGED <<jobs, documents, flags, chunkStore, tasks, handles, responses>>

\* _merge_results: 'chunks': list(all_chunks.values())
MergeChunks ==
    /\ search.pc = "merge"
    /\ search' = [search EXCEPT !.chunks = all_chunks(search.sem_chunks, search.kw_chunks),
                                !.pc = "combine"]
    /\ UNCHANGED <<jobs, documents, flags, chunkStore, tasks, handles, responses>>

\* full_text = analyzer.combine_chunks_for_analysis(doc['chunks'])
CombineChunks ==
    /\ search.pc = "combine"
    /\ search' = [search EXCEPT !.full_text = combine_chunks_for_analysis(search.chunks),
                                !.pc = "done"]
    /\ UNCHANGED <<jobs, documents, flags, chunkStore, tasks, handles, responses>>

\* the store holds one document of up to MaxStored chunks
InitCombine ==
    /\ jobs = <<>>
    /\ documents = <<>>
    /\ flags = <<>>
    /\ \E n \in 1..MaxStored :
         /\ chunkStore = SetToBag({process("u1", n)[i] : i \in 1..n})
         /\ search = NewRetrieval(process("u1", n))
    /\ tasks = <<>>
    /\ handles = <<>>
    /\ responses = <<>>

NextCombine ==
    \/ RetrieveSemantic
    \/ RetrieveKeyword
    \/ MergeChunks
    \/ CombineChunks

SpecCombine == InitCombine /\ [][NextCombine]_vars

\* the stored chunk with the given id
StoredChunk(chunk_id) ==
    CHOOSE e \in BagToSet(chunkStore) : e.chunk_id = chunk_id

\* C25: the combined text of a candidate lists its attached chunks in ascending
\* order of the chunk_index of the chunks as stored (the documents have no section
\* metadata).  The code breaks it: the chunks attached to a candidate hold
\* chunk_id and text only, so the key of every chunk is (0, 0) and the stable sort
\* leaves them in the order in which the searches returned them.
C25_CombinedInChunkOrder ==
    (search.pc = "done" /\ "full_text" \in DOMAIN search) =>
      /\ {search.full_text[i] : i \in 1..Len(search.full_text)}
            = {search.chunks[i].text : i \in 1..Len(search.chunks)}
      /\ Len(search.full_text) = Len(search.chunks)
      /\ \A i, k \in 1..Len(search.chunks) :
           LET a == CHOOSE c \in 1..Len(search.chunks) : search.chunks[c].text = search.full_text[i]
               b == CHOOSE c \in 1..Len(search.chunks) : search.chunks[c].text = search.full_text[k] IN
           i < k => StoredChunk(search.chunks[a].chunk_id).chunk_index
                       < StoredChunk(search.chunks[b].chunk_id).chunk_index

\* the stage of a call: discovery, validation, analysis and persistence
StageOf(call) ==
    CASE call = "search" -> 1 [] call = "validate" -> 2 [] OTHER -> 3

\* the documents of the calls of the given name in a sequence of calls, in order
CalledFor(calls, name) ==
    LET begun == SelectSeq(calls, LAMBDA c : c.call = name /\ c.at = "begin") IN
    [i \in 1..Len(begun) |-> begun[i].doc]

\* the document ids of a sequence of candidates, in order
IdsInOrder(docs) == [i \in 1..Len(docs) |-> docs[i].document_id]

\* C26: in one flag job every call has returned before the next one begins,
\* discovery comes before the first validation, every candidate is validated,
\* in the order of the list, before the first analysis or Flag write, the
\* validated candidates are handled one after the other in the order of the
\* list, and the analysis of a candidate (when one is run) has ended before the
\* write of its Flag begins.
C26_StagesInOrder ==
    \A j \in JobIds :
      LET t == tasks[j]
          c == t.calls IN
      t.kind = "flag_documents" =>
        /\ Len(c) % 2 = 0
        /\ \A n \in 1..Len(c) :
             n % 2 = 1 => /\ c[n].at = "begin"
                          /\ c[n + 1] = [c[n] EXCEPT !.at = "end"]
        /\ \A n, m \in 1..Len(c) : n < m => StageOf(c[n].call) <= StageOf(c[m].call)
        /\ Len(CalledFor(c, "search")) <= 1
        /\ CalledFor(c, "validate") =
               SubSeq(IdsInOrder(t.matching_docs), 1, Len(CalledFor(c, "validate")))
        /\ (\E n \in 1..Len(c) : StageOf(c[n].call) = 3) =>
               CalledFor(c, "validate") = IdsInOrder(t.matching_docs)
        /\ LET analysed == CalledFor(c, "analyze")
               written == CalledFor(c, "create_flag") IN
           /\ Truthy(t.what_changed) =>
                analysed = SubSeq(IdsInOrder(t.validated_docs), 1, Len(analysed))
           /\ ~Truthy(t.what_changed) =>
                /\ analysed = <<>>
                /\ written = SubSeq(IdsInOrder(t.validated_docs), 1, Len(written))
           /\ \A n \in 1..Len(c) :
                (c[n].call = "create_flag" /\ c[n].at = "begin" /\ Truthy(t.what_changed)) =>
                  /\ n > 2
                  /\ c[n - 1] = [call |-> "analyze", doc |-> c[n].doc, at |-> "end"]

\* C26 witness: a flag job with what_changed has found two candidates, validated
\* both, analysed both and written both Flags
C26_Witness ==
    \E j \in JobIds :
      LET t == tasks[j] IN
      /\ t.kind = "flag_documents"
      /\ t.pc = "finish"
      /\ Truthy(t.what_changed)
      /\ Len(t.matching_docs) = 2
      /\ Len(CalledFor(t.calls, "validate")) = 2
      /\ Len(CalledFor(t.calls, "analyze")) = 2
      /\ Len(CalledFor(t.calls, "create_flag")) = 2
      /\ Len(flags) = 2

\* C27: when a bulk-index job has completed, a URL it lists in failed_urls (and
\* did not ingest in another round) has no chunk in the vector store and no
\* Document record, so every document_id with chunks has a Document record.  The
\* code breaks it: the chunks are upserted before the Document record is
\* written, and when insert_document raises the URL is listed in failed_urls
\* while its chunks stay in the vector store.
C27_FailedUrlsLeaveNothing ==
    \A j \in JobIds :
      LET t == tasks[j] IN
      (t.kind = "bulk_index" /\ JobStatus(jobs, j) = "completed") =>
        /\ \A i \in 1..Len(t.outcomes) :
             (/\ t.outcomes[i] # "ok"
              /\ \A k \in 1..Len(t.outcomes) : t.urls[k] = t.urls[i] => t.outcomes[k] # "ok")
               => /\ generate_doc_id(t.urls[i]) \notin StoredDocIds(chunkStore)
                  /\ Matching(documents, "document_id", generate_doc_id(t.urls[i])) = {}
        /\ StoredDocIds(chunkStore) \subseteq Ids(documents)

(* ------------------------------ the wipe ------------------------------ *)
\* calls of DELETE /reset and GET /flagged in one behaviour
MaxResponses == 1

\* what may happen in VectorDB.delete_all: delete_collection raises; the
\* collection is deleted and created anew; it is deleted and the creation raises
VectorWipes == {"not deleted", "recreated", "deleted only"}

\* VectorDB.delete_all: the collection afterwards
delete_all_store(store, wipe) == IF wipe = "not deleted" THEN store ELSE EmptyBag

\* VectorDB.delete_all: the dict it returns (it raises nothing)
delete_all(wipe) ==
    IF wipe = "recreated" THEN [status |-> "success", message |-> "Vector database cleared"]
    ELSE [status |-> "error", message |-> "store error"]

\* what may happen in MongoDB.delete_all_data: the number of delete_many calls
\* (documents, flags, jobs, in this order) that return before one raises
MongoWipes == 0..3

\* MongoDB.delete_all_data: the dict it returns (it raises nothing)
delete_all_data(wipe) ==
    IF wipe = 3 THEN [status |-> "success"]
    ELSE [status |-> "error", message |-> "store error"]

\* DELETE /reset: both wipes return a dict, so the handler always reaches its
\* return; the response is logged with the number of jobs submitted so far
Reset(maxResponses) ==
    /\ Len(responses) < maxResponses
    /\ \E v \in VectorWipes, m \in MongoWipes :
         /\ chunkStore' = delete_all_store(chunkStore, v)
         /\ documents' = IF m >= 1 THEN <<>> ELSE documents
         /\ flags' = IF m >= 2 THEN <<>> ELSE flags
         /\ jobs' = IF m >= 3 THEN <<>> ELSE jobs
         /\ responses' = Append(responses,
               [kind |-> "reset", status |-> "success",
                message |-> "All data deleted successfully",
                vector_db |-> delete_all(v), mongodb |-> delete_all_data(m),
                submitted |-> Len(tasks)])
    /\ UNCHANGED <<tasks, handles, search>>

\* one bulk-index job, and a wipe at any time
NextReset ==
    \/ SubmitBulk(MaxSoloJobs, MaxUrls)
    \/ \E j \in JobIds : BulkStart(j)
    \/ \E j \in JobIds : BulkScrapeIndex(j)
    \/ \E j \in JobIds : BulkInsertDocument(j)
    \/ \E j \in JobIds : BulkFinish(j)
    \/ \E j \in JobIds : BulkHandler(j)
    \/ Reset(MaxResponses)

SpecReset == Init /\ [][NextReset]_vars

\* C28: the wipe reports status success only if the vector store and the
\* metadata store were emptied.  The code breaks it: delete_all and
\* delete_all_data catch their exceptions and return a dict with status error,
\* which reset_system puts into a response whose own status is success.
C28_ResetSuccessMeansEmptied ==
    [][(Len(responses') > Len(responses)
          /\ responses'[Len(responses')].kind = "reset"
          /\ responses'[Len(responses')].status = "success")
        => /\ chunkStore' = EmptyBag
           /\ documents' = <<>>
           /\ flags' = <<>>
           /\ jobs' = <<>>]_vars

\* the last response is that of a wipe of which every part succeeded, and no job
\* was submitted since
WipedAndQuiet ==
    /\ responses # <<>>
    /\ LET r == responses[Len(responses)] IN
       /\ r.kind = "reset"
       /\ r.status = "success"
       /\ r.vector_db.status = "success"
       /\ r.mongodb.status = "success"
       /\ r.submitted = Len(tasks)

\* C29: after a wipe that succeeded, and until a new job is submitted, the chunk
\* store, the Document records and the Flag records are empty and no job record
\* exists, also when a job was in flight at the wipe.  The code breaks the first
\* part: the task of a job in flight goes on after the wipe and upserts its
\* chunks and writes its Document record.
C29_WipedStaysEmpty ==
    WipedAndQuiet =>
      /\ chunkStore = EmptyBag
      /\ documents = <<>>
      /\ flags = <<>>
      /\ jobs = <<>>

\* the part of C29 the code keeps: the status writes of a task do not bring
\* back a job record the wipe deleted
WipedJobsStayDeleted == WipedAndQuiet => jobs = <<>>

(* --------------------------- listing the Flags ------------------------ *)
\* ChangeSuggestion(**s): s is a dict with the four members, three texts and a number
IsChangeSuggestion(s) ==
    /\ s.t = "obj"
    /\ SuggestionFields \subseteq DOMAIN s.f
    /\ \A k \in SuggestionFields \ {"confidence"} : s.f[k].t = "str"
    /\ s.f["confidence"].t = "num"

\* FlaggedDocument(...) of a stored Flag can be built: every item of
\* change_suggestions is a ChangeSuggestion (iterating a dict or a str yields
\* strings, which are none)
IsFlaggedDocument(flag) ==
    LET cs == flag.change_suggestions IN
    /\ cs.t \in {"list", "obj", "str"}
    /\ cs.n > 0 => /\ cs.t = "list"
                   /\ \A i \in 1..cs.n : IsChangeSuggestion(cs.f[i])

\* the requests GET /flagged accepts: no status, or one of FlagStatus
StatusFilters == {None} \cup {Some(st) : st \in FlagStatuses}

\* flags = [f for f in flags if f.get('status') == status], when status is given
FilterByStatus(coll, status) ==
    IF status = None THEN coll
    ELSE SelectSeq(coll, LAMBDA f : f.status = status[1])

\* GET /flagged: the read of the store may raise; the response is built from the
\* Flags that pass the filter, and is an error when one of them cannot be converted
ListFlags(maxResponses) ==
    /\ Len(responses) < maxResponses
    /\ \E status \in StatusFilters :
         LET selected == FilterByStatus(flags, status) IN
         \/ responses' = Append(responses,
               [kind |-> "flagged", status |-> status, code |-> 500,
                detail |-> "store error"])
         \/ /\ \A n \in 1..Len(selected) : IsFlaggedDocument(selected[n])
            /\ responses' = Append(responses,
                  [kind |-> "flagged", status |-> status, code |-> 200,
                   flagged_documents |-> selected, total |-> Len(selected)])
         \/ /\ \E n \in 1..Len(selected) : ~IsFlaggedDocument(selected[n])
            /\ responses' = Append(responses,
                  [kind |-> "flagged", status |-> status, code |-> 500,
                   detail |-> "validation error"])
    /\ UNCHANGED <<jobs, documents, flags, chunkStore, tasks, handles, search>>

\* the two flag tasks of InitFlagging with replies that hold suggestions, status
\* updates, and a listing at any time
NextList ==
    \/ \E j \in JobIds : FlagCandidate(j, SuggestionReplies)
    \/ \E j \in JobIds : FlagFinish(j)
    \/ \E j \in JobIds : FlagHandler(j)
    \/ UpdateFlagStatus
    \/ ListFlags(MaxResponses)

SpecList == InitFlagging /\ [][NextList]_vars

\* C30: whatever Flags the flag jobs have stored, a listing whose read of the
\* store succeeds answers with exactly the stored Flags whose status matches the
\* filter, and with their number as total.  The code breaks it: the analysis
\* reply is stored as it came, and a Flag with a suggestion that lacks a member
\* of ChangeSuggestion makes the conversion raise, so the whole listing is an
\* error.
C30_ListingSucceeds ==
    [][(Len(responses') > Len(responses)
          /\ responses'[Len(responses')].kind = "flagged"
          /\ responses'[Len(responses')].code = 500)
        => responses'[Len(responses')].detail = "store error"]_vars

\* what the code keeps of C30: a listing that succeeds holds exactly the stored
\* Flags that match the filter, in the order of the store, and their number
ListingIsExact ==
    [][(Len(responses') > Len(responses)
          /\ responses'[Len(responses')].kind = "flagged"
          /\ responses'[Len(responses')].code = 200)
        => LET r == responses'[Len(responses')] IN
           /\ r.flagged_documents = FilterByStatus(flags, r.status)
           /\ r.total = Len(r.flagged_documents)]_vars

=============================================================================
